---- MODULE Spec2Model ----
(***************************************************************************)
(* A model of aush (src/aush.py) and of its predecessor autoshell          *)
(* (src/autoshell.py): command descriptors, argument translation, the      *)
(* process/stream engine behind Result, and pipelines.                     *)
(*                                                                         *)
(* Three state machines share the variables of this module; each runs      *)
(* either library, chosen by lib in the initial state:                     *)
(*   SpecCmd   the descriptor algebra of Command                           *)
(*   SpecRun   one Result, from invocation to the accesses made on it      *)
(*   SpecPipe  a pipeline of two commands                                  *)
(* and three more run one part alone, on more inputs:                      *)
(*   SpecArgs  _convert_kwargs applied to one option mapping               *)
(*   SpecText  str() and iteration of one aush Result                      *)
(*   SpecFile  the redirection operators of two Results                    *)
(* Python strings that the code inspects character by character (option    *)
(* keys, argv tokens) are sequences of one-character strings.              *)
(***************************************************************************)
EXTENDS Integers, Sequences, FiniteSets, TLC

VARIABLES
    lib,        \* which library the behaviour runs: "aush" or "autoshell"
    cmds,       \* SpecCmd: the Command objects created so far (the heap)
    last,       \* SpecCmd: the last invocation: its inputs and what was handed to the executor
    ghostExt,   \* SpecCmd: history: per Command, program name and extension tokens it was built from
    procs,      \* SpecPipe: the processes spawned
    results,    \* SpecPipe: the Result objects made
    composed,   \* SpecPipe: what the pipe operator (or Pipeline(...)) returned
    outcome,    \* SpecPipe: what invoking the composed object returned
    hostStdin,  \* SpecPipe: the bytes waiting on the host's own input stream
    ppc,        \* SpecPipe: where the host is
    reading,    \* SpecPipe: the Result whose output the host is reading now, or 0
    rightSpawn, \* SpecPipe: history: the state of the left side when the right process was spawned
    pc,         \* SpecRun: where the host is
    rcheck,     \* SpecRun: Result._command._check
    child,      \* SpecRun: the child process: "none", "running", "closed" (streams closed), "exited"
    prog,       \* SpecRun: the writes the child has still to make
    exitcode,   \* SpecRun: the status the child exits with
    pipe,       \* SpecRun: the bytes in flight in the child's output and error pipes
    buf,        \* SpecRun: the host's output and error buffers
    eof,        \* SpecRun: per stream, whether its pump has read end-of-stream
    returncode, \* SpecRun: process.returncode: <<>> for None, <<c>> for c
    attrs,      \* SpecRun: autoshell: the attributes Result.wait sets on the Result
    ops,        \* SpecRun: the process.wait() / communicate() calls made so far
    raisedIn,   \* SpecRun: history: "none", or "invoke" / "access": where the failure was raised
    waitReturned, \* SpecRun: history: a wait() on the Result has returned
    wrote,      \* SpecRun: history: per stream, the bytes the child has written
    echo,       \* SpecRun: aush: the echo argument of Result
    term,       \* SpecRun: the writes made to sys.stderr, the host's terminal
    akw,        \* SpecArgs: the option mapping given to _convert_kwargs
    aout,       \* SpecArgs: what _convert_kwargs returned
    tout,       \* SpecText: Result.stdout, the bytes of the output buffer
    ttext,      \* SpecText: what str(result) gave
    tlines,     \* SpecText: what each iteration of the Result gave, oldest first
    truns,      \* SpecText: the processes spawned for the Result
    fres,       \* SpecFile: the Results: what their process wrote, and whether the host holds it
    files,      \* SpecFile: the file system: per path, whether the file exists and its content
    fops,       \* SpecFile: history: the redirections made, oldest first
    fret        \* SpecFile: the Result the last redirection operator returned, or 0

cmdVars == <<cmds, last, ghostExt>>
runVars == <<pc, rcheck, child, prog, exitcode, pipe, buf, eof, returncode, attrs, ops,
             raisedIn, waitReturned, wrote, echo, term>>
pipeVars == <<procs, results, composed, outcome, hostStdin, ppc, reading, rightSpawn>>
argVars == <<akw, aout>>
textVars == <<tout, ttext, tlines, truns>>
fileVars == <<fres, files, fops, fret>>
auxVars == <<argVars, textVars, fileVars>>
vars == <<lib, cmdVars, runVars, pipeVars, auxVars>>

(***************************************************************************)
(* Bounds                                                                  *)
(***************************************************************************)
MaxCmds == 3
MaxWrites == 4      \* bytes a child writes
PipeCap == 3        \* capacity of an OS pipe: more than one chunk
MaxWaits == 3       \* wait() calls that reach the process
MaxOptions == 2     \* entries of the option mapping given to _convert_kwargs
MaxText == 3        \* bytes of output whose text form is taken
MaxIters == 2       \* iterations of one Result
MaxRedirects == 2   \* redirections made

(***************************************************************************)
(* Strings and values                                                      *)
(***************************************************************************)
Underscore == "_"
Dash == "-"

\* program names, positional arguments, extension keys (tokens)
Tok_git == <<"g", "i", "t">>
Tok_add == <<"a", "d", "d">>
Tok_a_b == <<"a", "_", "b">>
Tok_x == <<"x">>

\* option keys
Key_v == <<"v">>
Key_n_x == <<"n", "_", "x">>
Key_ab == <<"a", "b">>
Key_env == <<"_", "e", "n", "v">>
Key_check == <<"_", "c", "h", "e", "c", "k">>
Key_stdout == <<"_", "s", "t", "d", "o", "u", "t">>
Key_stderr == <<"_", "s", "t", "d", "e", "r", "r">>
Key_stdin == <<"_", "s", "t", "d", "i", "n">>

\* Python values that occur as option values.  An environment is a set of
\* <<name, value>> pairs with distinct names; a list holds its elements, which
\* are values themselves, in elems.
Val(kind) ==
    [kind |-> kind, items |-> <<>>, elems |-> <<>>, env |-> {}, ref |-> 0, data |-> <<>>]

TrueV == Val("True")
FalseV == Val("False")
NoneV == Val("None")
PIPE == Val("PIPE")
StrV(s) == [Val("str") EXCEPT !.items = <<s>>]
ListV(vs) == [Val("list") EXCEPT !.elems = vs]
EnvV(e) == [Val("env") EXCEPT !.env = e]
\* the file object process.stdout of process p
StreamV(p) == [Val("stream") EXCEPT !.ref = p]
\* a bytes or str object
BytesV(b) == [Val("bytes") EXCEPT !.data = b]

\* bool(value)
Truthy(v) ==
    CASE v.kind = "True" -> TRUE
      [] v.kind = "False" -> FALSE
      [] v.kind = "None" -> FALSE
      [] v.kind = "str" -> Len(v.items[1]) > 0
      [] v.kind = "list" -> Len(v.elems) > 0
      [] v.kind = "env" -> v.env # {}
      [] v.kind = "bytes" -> v.data # <<>>
      [] OTHER -> TRUE

\* str(value)
PyStr(v) ==
    CASE v.kind = "str" -> v.items[1]
      [] v.kind = "True" -> <<"T", "r", "u", "e">>
      [] v.kind = "False" -> <<"F", "a", "l", "s", "e">>
      [] v.kind = "None" -> <<"N", "o", "n", "e">>
      [] v.kind = "PIPE" -> <<"-", "1">>
      [] OTHER -> <<"?">>

\* s.replace('_', '-')
ReplaceUnderscore(s) == [i \in 1..Len(s) |-> IF s[i] = Underscore THEN Dash ELSE s[i]]

\* no key is taken for a reserved one
NeverStartsWithUnderscore(s) == FALSE

\* s.startswith('_')
StartsWithUnderscore(s) == Len(s) > 0 /\ s[1] = Underscore

Min(a, b) == IF a < b THEN a ELSE b

\* '-' * n
Dashes(n) == [i \in 1..n |-> Dash]

(***************************************************************************)
(* Ordered dictionaries: sequences of [k, v] entries with distinct keys    *)
(***************************************************************************)
HasKey(d, k) == \E i \in 1..Len(d) : d[i].k = k

Get(d, k) == d[CHOOSE i \in 1..Len(d) : d[i].k = k].v

\* the dictionary without key k
Without(d, k) == SelectSeq(d, LAMBDA e : e.k # k)

\* a | b: a's keys keep their place and take b's value; b's new keys follow
DictUnion(a, b) ==
    [i \in 1..Len(a) |-> IF HasKey(b, a[i].k) THEN [k |-> a[i].k, v |-> Get(b, a[i].k)] ELSE a[i]]
        \o SelectSeq(b, LAMBDA e : ~HasKey(a, e.k))

\* environments: a | b on mappings whose order does not matter
EnvKeys(e) == {p[1] : p \in e}

EnvUnion(a, b) == {p \in a : p[1] \notin EnvKeys(b)} \cup b

\* os.environ of the calling process
OsEnviron == {<<"HOME", "h">>, <<"LANG", "c">>}

(***************************************************************************)
(* _listify, _convert_kwargs                                               *)
(***************************************************************************)
nonstriterable(v) == v.kind \in {"list", "env"}

\* iterating a mapping yields its keys; the set that stands for an environment
\* keeps no insertion order, and EnvKeySeq lists the names in a fixed one
RECURSIVE EnvKeySeq(_)
EnvKeySeq(e) ==
    IF e = {} THEN <<>>
    ELSE LET p == CHOOSE q \in e : TRUE
         IN  <<StrV(<<p[1]>>)>> \o EnvKeySeq(e \ {p})

\* a value that is left whole, whatever its type
listifyWhole(v) == <<v>>

listify(v) ==
    IF nonstriterable(v)
    THEN (IF v.kind = "list" THEN v.elems ELSE EnvKeySeq(v.env))
    ELSE <<v>>

\* one dash for a key of one or two characters
FlagTokenShort(k) == Dashes(IF Len(k) <= 2 THEN 1 ELSE 2) \o ReplaceUnderscore(k)

\* the flag of a non-reserved key
FlagToken(k) == Dashes(Min(Len(k), 2)) \o ReplaceUnderscore(k)

RECURSIVE FlagValues(_, _)
FlagValues(key, vs) ==
    IF vs = <<>> THEN <<>>
    ELSE (IF Head(vs).kind = "True" THEN <<key>> ELSE <<key, PyStr(Head(vs))>>)
            \o FlagValues(key, Tail(vs))

RECURSIVE convert_kwargs_args(_)
convert_kwargs_args(kwargs) ==
    IF kwargs = <<>> THEN <<>>
    ELSE (IF StartsWithUnderscore(Head(kwargs).k) THEN <<>>
          ELSE FlagValues(FlagToken(Head(kwargs).k), listify(Head(kwargs).v)))
            \o convert_kwargs_args(Tail(kwargs))

RECURSIVE convert_kwargs_kwargs(_)
convert_kwargs_kwargs(kwargs) ==
    IF kwargs = <<>> THEN <<>>
    ELSE (IF StartsWithUnderscore(Head(kwargs).k)
          THEN <<[k |-> Tail(Head(kwargs).k), v |-> Head(kwargs).v]>>
          ELSE <<>>)
            \o convert_kwargs_kwargs(Tail(kwargs))

(***************************************************************************)
(* aush.Command                                                            *)
(***************************************************************************)
default_kwargs == <<[k |-> Key_stdout, v |-> PIPE], [k |-> Key_stderr, v |-> PIPE]>>

\* Command.__init__(*args, _check=True, **kwargs): kw is everything passed by
\* keyword; the parameter _check takes its entry out of kwargs.
CommandInit(args, kw) ==
    LET kwargs == Without(kw, Key_check)
        all == DictUnion(default_kwargs, kwargs)
    IN  [name |-> args[1],
         check |-> IF HasKey(kw, Key_check) THEN Truthy(Get(kw, Key_check)) ELSE TRUE,
         kwargs |-> kwargs,
         command |-> args \o convert_kwargs_args(all),
         subprocess_kwargs |-> convert_kwargs_kwargs(all)]

\* Command._bake
Bake(self, args, kwargs) ==
    CommandInit(self.command \o args, DictUnion(self.kwargs, kwargs))

\* Command.__getitem__ for a string key
GetItemCmd(self, key) ==
    CommandInit(self.command \o <<key>>,
                DictUnion(<<[k |-> Key_check, v |-> IF self.check THEN TrueV ELSE FalseV]>>,
                          self.kwargs))

\* the kwargs Command.__call__ hands to _bake: a truthy _env is merged over os.environ
CallKwargs(kwargs) ==
    IF HasKey(kwargs, Key_env) /\ Truthy(Get(kwargs, Key_env))
    THEN DictUnion(kwargs,
                   <<[k |-> Key_env, v |-> EnvV(EnvUnion(OsEnviron, Get(kwargs, Key_env).env))]>>)
    ELSE kwargs

\* the environment create_subprocess_exec gives the child: env=... or, without it, the caller's
Key_env_stripped == Tail(Key_env)

SpawnEnv(cmd) ==
    IF HasKey(cmd.subprocess_kwargs, Key_env_stripped)
    THEN Get(cmd.subprocess_kwargs, Key_env_stripped).env
    ELSE OsEnviron

(***************************************************************************)
(* autoshell.Command                                                       *)
(***************************************************************************)
Key_text == <<"t", "e", "x", "t">>

auto_default_kwargs ==
    <<[k |-> Tail(Key_stdout), v |-> PIPE], [k |-> Tail(Key_stderr), v |-> PIPE],
      [k |-> Key_text, v |-> TrueV]>>

\* Command.__init__(*args, **kwargs)
AutoCommandInit(args, kwargs) ==
    [command |-> args, kwargs |-> DictUnion(auto_default_kwargs, kwargs)]

\* Command.__getitem__(*args), which is __getattr__ too
AutoGetItemCmd(self, key) == AutoCommandInit(self.command \o <<key>>, self.kwargs)

\* Command.__call__: the argv and the keyword arguments given to Popen
AutoCallArgv(self, args, kwargs) == self.command \o args \o convert_kwargs_args(kwargs)

AutoCallKwargs(self, kwargs) == DictUnion(self.kwargs, convert_kwargs_kwargs(kwargs))

(***************************************************************************)
(* SpecCmd: construction, extension, invocation                            *)
(***************************************************************************)
NoCall == [called |-> FALSE, src |-> 0, args |-> <<>>, kwargs |-> <<>>,
           argv |-> <<>>, skw |-> <<>>, check |-> TRUE, env |-> {}]

\* inputs
ArgChoices == {<<>>, <<Tok_x>>}

EnvA == {<<"A", "1">>, <<"C", "4">>}
EnvB == {<<"B", "2">>, <<"A", "3">>}

KwargChoices ==
    {<<>>,
     <<[k |-> Key_v, v |-> TrueV]>>,
     <<[k |-> Key_n_x, v |-> StrV(Tok_x)]>>,
     <<[k |-> Key_env, v |-> EnvV(EnvA)]>>,
     <<[k |-> Key_env, v |-> EnvV(EnvB)]>>,
     <<[k |-> Key_check, v |-> FalseV]>>,
     <<[k |-> Key_v, v |-> StrV(Tok_x)], [k |-> Key_env, v |-> EnvV({})]>>}

ExtChoices == {Tok_add, Tok_a_b}

CmdIdle ==
    /\ cmds = <<>>
    /\ last = NoCall
    /\ ghostExt = <<>>

\* Command(name, **kw); the module namespace gives Command(name)
New(kw) ==
    /\ Len(cmds) < MaxCmds
    /\ lib = "autoshell" => kw = <<>>
    /\ cmds' = Append(cmds, IF lib = "aush" THEN CommandInit(<<Tok_git>>, kw)
                            ELSE AutoCommandInit(<<Tok_git>>, kw))
    /\ ghostExt' = Append(ghostExt, <<Tok_git>>)
    /\ UNCHANGED last

\* an extension that appends to the list of the descriptor it extends
GetItemHeapInPlace(heap, d, key) ==
    Append([heap EXCEPT ![d].command = @ \o <<key>>],
           IF lib = "aush" THEN GetItemCmd(heap[d], key) ELSE AutoGetItemCmd(heap[d], key))

\* the heap after d[key]: self._command + [key] is a new list, Command(...) a new object
GetItemHeap(heap, d, key) ==
    Append(heap, IF lib = "aush" THEN GetItemCmd(heap[d], key) ELSE AutoGetItemCmd(heap[d], key))

\* d[key]
GetItem(d, key) ==
    /\ Len(cmds) < MaxCmds
    /\ cmds' = GetItemHeap(cmds, d, key)
    /\ ghostExt' = Append(ghostExt, ghostExt[d] \o <<key>>)
    /\ UNCHANGED last

\* the token d.name appends: aush replaces underscores, autoshell does not
AttrToken(name) == IF lib = "aush" THEN ReplaceUnderscore(name) ELSE name

\* d.name
GetAttr(d, name) ==
    /\ Len(cmds) < MaxCmds
    /\ cmds' = GetItemHeap(cmds, d, AttrToken(name))
    /\ ghostExt' = Append(ghostExt, ghostExt[d] \o <<AttrToken(name)>>)
    /\ UNCHANGED last

\* aush: d(*args, **kwargs): _bake makes the Command that Result runs
Call(d, args, kwargs) ==
    /\ lib = "aush"
    /\ Len(cmds) < MaxCmds
    /\ LET cmd == Bake(cmds[d], args, CallKwargs(kwargs))
       IN  /\ cmds' = Append(cmds, cmd)
           /\ last' = [called |-> TRUE, src |-> d, args |-> args, kwargs |-> kwargs,
                       argv |-> cmd.command, skw |-> cmd.subprocess_kwargs,
                       check |-> cmd.check, env |-> SpawnEnv(cmd)]
    /\ ghostExt' = Append(ghostExt, ghostExt[d])

\* autoshell: d(*args, **kwargs): Popen(cmd, **kwargs); no Command is made
AutoCall(d, args, kwargs) ==
    /\ lib = "autoshell"
    /\ last' = [called |-> TRUE, src |-> d, args |-> args, kwargs |-> kwargs,
                argv |-> AutoCallArgv(cmds[d], args, kwargs),
                skw |-> AutoCallKwargs(cmds[d], kwargs),
                check |-> TRUE,
                env |-> LET c == [subprocess_kwargs |-> AutoCallKwargs(cmds[d], kwargs)]
                        IN  SpawnEnv(c)]
    /\ UNCHANGED <<cmds, ghostExt>>


(***************************************************************************)
(* SpecRun: one Result, its child process and its two streams              *)
(***************************************************************************)
\* READ_CHUNK_LENGTH is 2**10 in the source; the model reads chunks of 2
\* bytes from pipes that hold PipeCap bytes, so that a read can leave bytes
\* behind for the next one.
READ_CHUNK_LENGTH == 2

Streams == {"out", "err"}

None == <<>>

NoAttrs == [set |-> FALSE, stdout |-> <<>>, stderr |-> <<>>, returncode |-> None,
            waited |-> FALSE, _waited |-> FALSE]

RunIdle ==
    /\ pc = "idle"
    /\ rcheck = TRUE
    /\ child = "none"
    /\ prog = <<>>
    /\ exitcode = 0
    /\ pipe = [s \in Streams |-> <<>>]
    /\ buf = [s \in Streams |-> <<>>]
    /\ eof = [s \in Streams |-> FALSE]
    /\ returncode = None
    /\ attrs = NoAttrs
    /\ ops = 0
    /\ raisedIn = "none"
    /\ waitReturned = FALSE
    /\ wrote = [s \in Streams |-> <<>>]
    /\ echo = FALSE
    /\ term = <<>>

\* the programs a child may run: every sequence of at most MaxWrites writes,
\* the i-th write being the byte i, to the output or the error stream
RECURSIVE Progs(_)
Progs(n) ==
    IF n = 0 THEN {<<>>}
    ELSE LET shorter == Progs(n - 1)
         IN  shorter \cup {Append(q, [s |-> st, b |-> Len(q) + 1]) :
                              q \in {r \in shorter : Len(r) = n - 1}, st \in Streams}

ExitCodes == {0, 1}

\* Result.finished
finished == returncode # None

\* Command.__call__ -> Result: _run spawns the process.  aush's Result.__init__
\* goes on to run both pumps; autoshell's returns the Result at once.
\* echo is logging.root.level <= logging.INFO; autoshell echoes nothing.
RunCall(p, code, chk, e) ==
    /\ pc = "idle"
    /\ lib = "autoshell" => ~e
    /\ echo' = e
    /\ child' = "running"
    /\ prog' = p
    /\ exitcode' = code
    /\ rcheck' = chk
    /\ pc' = IF lib = "aush" THEN "pumping" ELSE "returned"
    /\ UNCHANGED <<pipe, buf, eof, returncode, attrs, ops, raisedIn, waitReturned,
                   wrote, term>>

\* the child writes its next byte, blocking while the pipe is full
ChildWrite ==
    /\ child = "running"
    /\ prog # <<>>
    /\ Len(pipe[Head(prog).s]) < PipeCap
    /\ pipe' = [pipe EXCEPT ![Head(prog).s] = Append(@, Head(prog).b)]
    /\ wrote' = [wrote EXCEPT ![Head(prog).s] = Append(@, Head(prog).b)]
    /\ prog' = Tail(prog)
    /\ UNCHANGED <<pc, rcheck, child, exitcode, buf, eof, returncode, attrs, ops,
                   raisedIn, waitReturned,
                   echo, term>>

\* the child closes its streams when it has written everything
ChildClose ==
    /\ child = "running"
    /\ prog = <<>>
    /\ child' = "closed"
    /\ UNCHANGED <<pc, rcheck, prog, exitcode, pipe, buf, eof, returncode, attrs, ops,
                   raisedIn, waitReturned,
                   wrote, echo, term>>

ChildExit ==
    /\ child = "closed"
    /\ child' = "exited"
    /\ UNCHANGED <<pc, rcheck, prog, exitcode, pipe, buf, eof, returncode, attrs, ops,
                   raisedIn, waitReturned,
                   wrote, echo, term>>

\* sequential pumps: the error stream is read only after the output stream ended
PumpActiveSequential(s) == s = "out" \/ eof["out"]

\* asyncio.gather(_read(stdout), _read(stderr)): both pumps are tasks of the loop
PumpActive(s) == s \in Streams

Pumping == pc \in {"pumping", "communicating"}

FirstN(q, n) == SubSeq(q, 1, Min(Len(q), n))

\* a read that leaves nothing in the pipe, whatever it returned
DropAll(q, n) == <<>>

DropN(q, n) == SubSeq(q, Min(Len(q), n) + 1, Len(q))

\* _read, if echo: the writes to sys.stderr.buffer for one chunk: the chunk,
\* between the colour's escape sequence and RESET when a colour is given
\* (the error stream's pump is given COLORS.f.red, the output's none)
EchoWrites(s, chunk) ==
    IF s = "err"
    THEN <<[kind |-> "color", data |-> <<>>], [kind |-> "chunk", data |-> chunk],
           [kind |-> "reset", data |-> <<>>]>>
    ELSE <<[kind |-> "chunk", data |-> chunk]>>

\* _read: chunk := await stream.read(READ_CHUNK_LENGTH); buffer.write(chunk)
PumpRead(s) ==
    /\ Pumping
    /\ PumpActive(s)
    /\ ~eof[s]
    /\ pipe[s] # <<>>
    /\ buf' = [buf EXCEPT ![s] = @ \o FirstN(pipe[s], READ_CHUNK_LENGTH)]
    /\ pipe' = [pipe EXCEPT ![s] = DropN(@, READ_CHUNK_LENGTH)]
    /\ term' = IF echo THEN term \o EchoWrites(s, FirstN(pipe[s], READ_CHUNK_LENGTH)) ELSE term
    /\ UNCHANGED <<pc, rcheck, child, prog, exitcode, eof, returncode, attrs, ops,
                   raisedIn, waitReturned,
                   wrote, echo>>

\* _read: an empty chunk ends the loop
PumpEOF(s) ==
    /\ Pumping
    /\ PumpActive(s)
    /\ ~eof[s]
    /\ pipe[s] = <<>>
    /\ child \in {"closed", "exited"}
    /\ eof' = [eof EXCEPT ![s] = TRUE]
    /\ UNCHANGED <<pc, rcheck, child, prog, exitcode, pipe, buf, returncode, attrs, ops,
                   raisedIn, waitReturned,
                   wrote, echo, term>>

\* while the loop runs, asyncio's child watcher may report the exit
Reap ==
    /\ lib = "aush"
    /\ pc = "pumping"
    /\ child = "exited"
    /\ ~finished
    /\ returncode' = <<exitcode>>
    /\ UNCHANGED <<pc, rcheck, child, prog, exitcode, pipe, buf, eof, attrs, ops,
                   raisedIn, waitReturned,
                   wrote, echo, term>>

\* a gather that waits for the output pump alone
GatherOne == eof["out"]

\* asyncio.gather returns when both pumps have returned (communicate: both streams ended)
GatherBoth == eof["out"] /\ eof["err"]

\* Result.__init__: run_until_complete(gather(...)) returns
GatherDone ==
    /\ lib = "aush"
    /\ pc = "pumping"
    /\ GatherBoth
    /\ pc' = IF rcheck THEN "init_check" ELSE "returned"
    /\ UNCHANGED <<rcheck, child, prog, exitcode, pipe, buf, eof, returncode, attrs, ops,
                   raisedIn, waitReturned,
                   wrote, echo, term>>

\* process.wait() returns when the process has exited
ProcessWaitDone == child = "exited"

\* Result.__init__: if self._command._check and self.code: raise
\* self.code calls wait(), which calls process.wait() unless finished
InitCheck ==
    /\ lib = "aush"
    /\ pc = "init_check"
    /\ finished \/ ProcessWaitDone
    /\ returncode' = <<exitcode>>
    /\ ops' = IF finished THEN ops ELSE ops + 1
    /\ waitReturned' = TRUE
    /\ IF exitcode # 0
       THEN pc' = "raised" /\ raisedIn' = "invoke"
       ELSE pc' = "returned" /\ UNCHANGED raisedIn
    /\ UNCHANGED <<rcheck, child, prog, exitcode, pipe, buf, eof, attrs,
                   wrote, echo, term>>

AushAccessors == {"wait", "code", "stdout", "stderr"}

\* aush: Result.wait and the properties code, stdout, stderr, which call it
Access(name) ==
    /\ lib = "aush"
    /\ pc = "returned"
    /\ finished \/ ProcessWaitDone
    /\ returncode' = <<exitcode>>
    /\ ops' = IF finished THEN ops ELSE ops + 1
    /\ waitReturned' = TRUE
    /\ UNCHANGED <<pc, rcheck, child, prog, exitcode, pipe, buf, eof, attrs, raisedIn,
                   wrote, echo, term>>

WaitedFlag == attrs._waited

\* autoshell: Result.wait: unless self._waited, communicate() is entered
\* (self._process.stdin is None here: nothing to close)
AutoWaitBegin ==
    /\ lib = "autoshell"
    /\ pc = "returned"
    /\ IF WaitedFlag
       THEN UNCHANGED <<pc, ops>>
       ELSE /\ ops < MaxWaits
            /\ pc' = "communicating"
            /\ ops' = ops + 1
    /\ UNCHANGED <<rcheck, child, prog, exitcode, pipe, buf, eof, returncode, attrs,
                   raisedIn, waitReturned,
                   wrote, echo, term>>

\* autoshell: communicate() returns when both streams ended and the process
\* exited; wait() stores the results and sets self.waited
CommunicateDone ==
    /\ lib = "autoshell"
    /\ pc = "communicating"
    /\ GatherBoth
    /\ ProcessWaitDone
    /\ returncode' = <<exitcode>>
    /\ attrs' = [attrs EXCEPT !.set = TRUE, !.stdout = buf["out"], !.stderr = buf["err"],
                              !.returncode = <<exitcode>>, !.waited = TRUE]
    /\ pc' = "returned"
    /\ waitReturned' = TRUE
    /\ UNCHANGED <<rcheck, child, prog, exitcode, pipe, buf, eof, ops, raisedIn,
                   wrote, echo, term>>

AutoAccessors == {"code", "returncode", "stdout", "stderr"}

\* autoshell: Result.__getattr__ runs only while the attribute is not set, and
\* then calls wait()
AutoAccess(name) ==
    /\ lib = "autoshell"
    /\ pc = "returned"
    /\ IF attrs.set \/ WaitedFlag
       THEN UNCHANGED <<pc, ops>>
       ELSE /\ ops < MaxWaits
            /\ pc' = "communicating"
            /\ ops' = ops + 1
    /\ UNCHANGED <<rcheck, child, prog, exitcode, pipe, buf, eof, returncode, attrs,
                   raisedIn, waitReturned,
                   wrote, echo, term>>

ChildStep == ChildWrite \/ ChildClose \/ ChildExit

PumpStep == \E s \in Streams : PumpRead(s) \/ PumpEOF(s)

(***************************************************************************)
(* SpecPipe: a pipeline of a producer A and a filter B                     *)
(*                                                                         *)
(* A ignores its input and writes OutA.  B reads its input to the end and  *)
(* then writes Filter(input).  Only the output streams are followed here;  *)
(* pipes are unbounded (SpecRun has the bounded ones).                     *)
(***************************************************************************)
Tok_A == <<"A">>
Tok_B == <<"B">>

OutA == <<1, 2>>

Filter(input) == [i \in 1..Len(input) |-> input[i] + 10]

HostStdinChoices == {<<>>, <<7>>}

NoSpawn == [spawned |-> FALSE, proc |-> 0, leftRes |-> 0, leftCheck |-> TRUE,
            leftDrained |-> FALSE, leftBuf |-> <<>>, leftFinished |-> FALSE,
            leftOpen |-> FALSE]

NoComposed == [kind |-> "none", left |-> "none", leftRes |-> 0, leftCompleted |-> FALSE,
               cmd |-> <<>>]

NoOutcome == [kind |-> "none", res |-> 0]

PipeIdle ==
    /\ procs = <<>>
    /\ results = <<>>
    /\ composed = NoComposed
    /\ outcome = NoOutcome
    /\ hostStdin = <<>>
    /\ ppc = "start"
    /\ reading = 0
    /\ rightSpawn = NoSpawn

LeftCmd == IF lib = "aush" THEN CommandInit(<<Tok_A>>, <<>>) ELSE AutoCommandInit(<<Tok_A>>, <<>>)

RightCmd == IF lib = "aush" THEN CommandInit(<<Tok_B>>, <<>>) ELSE AutoCommandInit(<<Tok_B>>, <<>>)

\* the stdin= a process is created with; None when there is none
StdinOf(skw) == IF HasKey(skw, Tail(Key_stdin)) THEN Get(skw, Tail(Key_stdin)) ELSE NoneV

NewProc(program, stdin) ==
    [prog |-> program, stdin |-> stdin, inp |-> <<>>,
     todo |-> IF program = Tok_A THEN OutA ELSE <<>>,
     out |-> <<>>,
     phase |-> IF program = Tok_A THEN "writing" ELSE "reading",
     hostClosed |-> FALSE]

NewResult(p, chk) ==
    [proc |-> p, check |-> chk, buf |-> <<>>, drained |-> FALSE, finished |-> FALSE,
     waited |-> FALSE, _waited |-> FALSE]

\* process.stdin: a stream only when the process was created with stdin=PIPE
ProcessStdinAttr(p) == IF procs[p].stdin.kind = "PIPE" THEN Val("stdin_writer") ELSE NoneV

\* process.stdout of the left process
ProcessStdoutAttr(p) == StreamV(p)

\* Pipeline.__call__: the _stdin it gives the right command: result._process.stdin
PipelineRightStdin(leftRes) == ProcessStdinAttr(results[leftRes].proc)

\* Result.__or__ of autoshell: what it adds to the right command's kwargs
Key_input == <<"i", "n", "p", "u", "t">>

OrStdin(r) ==
    IF results[r]._waited
    THEN <<[k |-> Key_input, v |-> BytesV(results[r].buf)]>>
    ELSE <<[k |-> Tail(Key_stdin), v |-> ProcessStdoutAttr(results[r].proc)]>>

\* ---- the child processes ----

\* what a reading process can read now
StdinData(p) ==
    CASE procs[p].stdin.kind = "None" -> hostStdin
      [] procs[p].stdin.kind = "stream" -> procs[procs[p].stdin.ref].out
      [] OTHER -> <<>>

StdinAtEnd(p) ==
    CASE procs[p].stdin.kind = "None" -> hostStdin = <<>>
      [] procs[p].stdin.kind = "stream" ->
            procs[procs[p].stdin.ref].out = <<>> /\ procs[procs[p].stdin.ref].phase = "exited"
      [] OTHER -> TRUE

\* B reads one byte of its input
ProcRead(p) ==
    /\ procs[p].phase = "reading"
    /\ StdinData(p) # <<>>
    /\ IF procs[p].stdin.kind = "None"
       THEN /\ hostStdin' = Tail(hostStdin)
            /\ procs' = [procs EXCEPT ![p].inp = Append(@, Head(hostStdin))]
       ELSE /\ procs' = [procs EXCEPT ![p].inp = Append(@, Head(StdinData(p))),
                                      ![procs[p].stdin.ref].out = Tail(@)]
            /\ UNCHANGED hostStdin
    /\ UNCHANGED <<results, composed, outcome, ppc, reading, rightSpawn>>

\* B reads the end of its input and has its output to write
ProcReadEnd(p) ==
    /\ procs[p].phase = "reading"
    /\ StdinAtEnd(p)
    /\ procs' = [procs EXCEPT ![p].phase = "writing", ![p].todo = Filter(procs[p].inp)]
    /\ UNCHANGED <<results, composed, outcome, hostStdin, ppc, reading, rightSpawn>>

ProcWrite(p) ==
    /\ procs[p].phase = "writing"
    /\ procs[p].todo # <<>>
    /\ procs' = [procs EXCEPT ![p].out = Append(@, Head(procs[p].todo)), ![p].todo = Tail(@)]
    /\ UNCHANGED <<results, composed, outcome, hostStdin, ppc, reading, rightSpawn>>

ProcExit(p) ==
    /\ procs[p].phase = "writing"
    /\ procs[p].todo = <<>>
    /\ procs' = [procs EXCEPT ![p].phase = "exited"]
    /\ UNCHANGED <<results, composed, outcome, hostStdin, ppc, reading, rightSpawn>>

\* ---- the host reading a Result's output (the pump, or communicate) ----

HostRead ==
    /\ reading # 0
    /\ ~results[reading].drained
    /\ procs[results[reading].proc].out # <<>>
    /\ results' = [results EXCEPT ![reading].buf =
                      @ \o FirstN(procs[results[reading].proc].out, READ_CHUNK_LENGTH)]
    /\ procs' = [procs EXCEPT ![results[reading].proc].out = DropN(@, READ_CHUNK_LENGTH)]
    /\ UNCHANGED <<composed, outcome, hostStdin, ppc, reading, rightSpawn>>

HostEOF ==
    /\ reading # 0
    /\ ~results[reading].drained
    /\ procs[results[reading].proc].out = <<>>
    /\ procs[results[reading].proc].phase = "exited"
    /\ results' = [results EXCEPT ![reading].drained = TRUE]
    /\ UNCHANGED <<procs, composed, outcome, hostStdin, ppc, reading, rightSpawn>>

\* ---- a left Result made before the pipe is composed ----

\* r = A(): aush's Result.__init__ starts reading; autoshell's returns at once
RunLeft ==
    /\ ppc = "start"
    /\ procs' = Append(procs, NewProc(Tok_A, NoneV))
    /\ results' = Append(results, NewResult(Len(procs) + 1, TRUE))
    /\ reading' = IF lib = "aush" THEN Len(results) + 1 ELSE 0
    /\ ppc' = IF lib = "aush" THEN "left_init" ELSE "left_ready"
    /\ UNCHANGED <<composed, outcome, hostStdin, rightSpawn>>

\* aush: Result.__init__ of the left: the gather returns, _check holds, self.code waits
LeftInitDone ==
    /\ lib = "aush"
    /\ ppc = "left_init"
    /\ results[reading].drained
    /\ procs[results[reading].proc].phase = "exited"
    /\ results' = [results EXCEPT ![reading].finished = TRUE]
    /\ reading' = 0
    /\ ppc' = "left_ready"
    /\ UNCHANGED <<procs, composed, outcome, hostStdin, rightSpawn>>

\* r.wait(): aush's returns at once on a finished Result; autoshell's enters
\* communicate() unless _waited
WaitLeft ==
    /\ ppc = "left_ready"
    /\ IF lib = "aush" \/ results[1]._waited
       THEN UNCHANGED <<reading, ppc>>
       ELSE reading' = 1 /\ ppc' = "left_communicating"
    /\ UNCHANGED <<procs, results, composed, outcome, hostStdin, rightSpawn>>

\* autoshell: communicate() returns: the streams are closed, wait() sets self.waited
LeftCommunicateDone ==
    /\ lib = "autoshell"
    /\ ppc = "left_communicating"
    /\ results[reading].drained
    /\ procs[results[reading].proc].phase = "exited"
    /\ results' = [results EXCEPT ![reading].finished = TRUE, ![reading].waited = TRUE]
    /\ procs' = [procs EXCEPT ![results[reading].proc].hostClosed = TRUE]
    /\ reading' = 0
    /\ ppc' = "left_ready"
    /\ UNCHANGED <<composed, outcome, hostStdin, rightSpawn>>

\* ---- composing ----

\* a pipe operator that runs its left operand at once, in either library
ComposeCmdsEager ==
    /\ ppc = "start"
    /\ procs' = Append(procs, NewProc(Tok_A, NoneV))
    /\ results' = Append(results, NewResult(Len(procs) + 1, TRUE))
    /\ composed' = [kind |-> IF lib = "aush" THEN "Pipeline" ELSE "Command",
                    left |-> "Command", leftRes |-> Len(results) + 1,
                    leftCompleted |-> FALSE,
                    cmd |-> IF lib = "aush" THEN RightCmd
                            ELSE AutoCommandInit(RightCmd.command,
                                    DictUnion(RightCmd.kwargs,
                                              <<[k |-> Tail(Key_stdin),
                                                 v |-> ProcessStdoutAttr(Len(procs) + 1)]>>))]
    /\ ppc' = "composed"
    /\ UNCHANGED <<outcome, hostStdin, reading, rightSpawn>>

\* A | B on two Commands.  aush: Pipeline(A, B), nothing runs.  autoshell:
\* Command.__or__ is self() | other: A is spawned, Result.__or__ makes a Command.
ComposeCmds ==
    /\ ppc = "start"
    /\ IF lib = "aush"
       THEN /\ composed' = [kind |-> "Pipeline", left |-> "Command", leftRes |-> 0,
                            leftCompleted |-> FALSE, cmd |-> RightCmd]
            /\ UNCHANGED <<procs, results>>
       ELSE /\ procs' = Append(procs, NewProc(Tok_A, NoneV))
            /\ results' = Append(results, NewResult(Len(procs) + 1, TRUE))
            /\ composed' = [kind |-> "Command", left |-> "Command", leftRes |-> Len(results) + 1,
                            leftCompleted |-> FALSE,
                            cmd |-> AutoCommandInit(RightCmd.command,
                                       DictUnion(RightCmd.kwargs,
                                                 <<[k |-> Tail(Key_stdin),
                                                    v |-> ProcessStdoutAttr(Len(procs) + 1)]>>))]
    /\ ppc' = "composed"
    /\ UNCHANGED <<outcome, hostStdin, reading, rightSpawn>>

\* r | B on a Result r.  aush: Pipeline(r, B).  autoshell: Result.__or__.
ComposeResult ==
    /\ ppc = "left_ready"
    /\ composed' = [kind |-> IF lib = "aush" THEN "Pipeline" ELSE "Command",
                    left |-> "Result", leftRes |-> 1,
                    leftCompleted |-> results[1].finished,
                    cmd |-> IF lib = "aush" THEN RightCmd
                            ELSE AutoCommandInit(RightCmd.command,
                                                 DictUnion(RightCmd.kwargs, OrStdin(1)))]
    /\ ppc' = "composed"
    /\ UNCHANGED <<procs, results, outcome, hostStdin, reading, rightSpawn>>

\* ---- invoking: aush ----

\* Pipeline.__call__, left a Command: result = self.left(_check=False)
PipelineStartLeft ==
    /\ lib = "aush"
    /\ ppc = "composed"
    /\ composed.left = "Command"
    /\ LET cmd == Bake(LeftCmd, <<>>, CallKwargs(<<[k |-> Key_check, v |-> FalseV]>>))
       IN  /\ procs' = Append(procs, NewProc(cmd.command[1], StdinOf(cmd.subprocess_kwargs)))
           /\ results' = Append(results, NewResult(Len(procs) + 1, cmd.check))
    /\ reading' = Len(results) + 1
    /\ ppc' = "pipeline_left"
    /\ UNCHANGED <<composed, outcome, hostStdin, rightSpawn>>

LeftInitReturns(r) == results[r].drained

\* Pipeline.__call__: the Result of the left is there (its __init__ read the
\* output to its end and, _check being False, did not wait); the right is
\* called with _stdin=result._process.stdin
PipelineStartRight ==
    /\ lib = "aush"
    /\ ppc = "pipeline_left"
    /\ LeftInitReturns(reading)
    /\ LET cmd == Bake(composed.cmd, <<>>,
                       CallKwargs(<<[k |-> Key_stdin, v |-> PipelineRightStdin(reading)]>>))
       IN  /\ procs' = Append(procs, NewProc(cmd.command[1], StdinOf(cmd.subprocess_kwargs)))
           /\ results' = Append(results, NewResult(Len(procs) + 1, cmd.check))
    /\ rightSpawn' = [spawned |-> TRUE, proc |-> Len(procs) + 1, leftRes |-> reading,
                      leftCheck |-> results[reading].check,
                      leftDrained |-> results[reading].drained,
                      leftBuf |-> results[reading].buf,
                      leftFinished |-> results[reading].finished,
                      leftOpen |-> ~procs[results[reading].proc].hostClosed]
    /\ reading' = Len(results) + 1
    /\ ppc' = "pipeline_right"
    /\ UNCHANGED <<composed, outcome, hostStdin>>

\* Pipeline.__call__: Result.__init__ of the right returns (B exits 0), and is returned
PipelineRightDone ==
    /\ lib = "aush"
    /\ ppc = "pipeline_right"
    /\ results[reading].drained
    /\ procs[results[reading].proc].phase = "exited"
    /\ results' = [results EXCEPT ![reading].finished = TRUE]
    /\ outcome' = [kind |-> "Result", res |-> reading]
    /\ reading' = 0
    /\ ppc' = "done"
    /\ UNCHANGED <<procs, composed, hostStdin, rightSpawn>>

\* Pipeline.__call__, left not a Command: self.right._bake(_stdin=self.left.stdout)
\* makes a Command and drops it; the call returns None
PipelineLeftResult ==
    /\ lib = "aush"
    /\ ppc = "composed"
    /\ composed.left = "Result"
    /\ outcome' = [kind |-> "None", res |-> 0]
    /\ ppc' = "done"
    /\ UNCHANGED <<procs, results, composed, hostStdin, reading, rightSpawn>>

\* ---- invoking: autoshell ----

\* Command.__call__ of the composed Command: Popen(cmd, **kwargs).  Popen has
\* no parameter input (TypeError) and cannot use a closed file (ValueError).
AutoInvoke ==
    /\ lib = "autoshell"
    /\ ppc = "composed"
    /\ LET kw == AutoCallKwargs(composed.cmd, <<>>)
           stdin == StdinOf(kw)
       IN  IF HasKey(kw, Key_input)
           THEN /\ outcome' = [kind |-> "TypeError", res |-> 0]
                /\ ppc' = "done"
                /\ UNCHANGED <<procs, results, rightSpawn>>
           ELSE IF stdin.kind = "stream" /\ procs[stdin.ref].hostClosed
           THEN /\ outcome' = [kind |-> "ValueError", res |-> 0]
                /\ ppc' = "done"
                /\ UNCHANGED <<procs, results, rightSpawn>>
           ELSE /\ procs' = Append(procs, NewProc(AutoCallArgv(composed.cmd, <<>>, <<>>)[1], stdin))
                /\ results' = Append(results, NewResult(Len(procs) + 1, TRUE))
                /\ rightSpawn' = [spawned |-> TRUE, proc |-> Len(procs) + 1,
                                  leftRes |-> composed.leftRes,
                                  leftCheck |-> FALSE,
                                  leftDrained |-> results[composed.leftRes].drained,
                                  leftBuf |-> results[composed.leftRes].buf,
                                  leftFinished |-> results[composed.leftRes].finished,
                                  leftOpen |-> ~procs[results[composed.leftRes].proc].hostClosed]
                /\ outcome' = [kind |-> "Result", res |-> Len(results) + 1]
                /\ ppc' = "invoked"
    /\ UNCHANGED <<composed, hostStdin, reading>>

\* the caller reads the Result of the pipeline: wait() enters communicate()
AutoWaitRight ==
    /\ lib = "autoshell"
    /\ ppc = "invoked"
    /\ reading' = outcome.res
    /\ ppc' = "right_communicating"
    /\ UNCHANGED <<procs, results, composed, outcome, hostStdin, rightSpawn>>

RightCommunicateDone ==
    /\ lib = "autoshell"
    /\ ppc = "right_communicating"
    /\ results[reading].drained
    /\ procs[results[reading].proc].phase = "exited"
    /\ results' = [results EXCEPT ![reading].finished = TRUE, ![reading].waited = TRUE]
    /\ procs' = [procs EXCEPT ![results[reading].proc].hostClosed = TRUE]
    /\ reading' = 0
    /\ ppc' = "done"
    /\ UNCHANGED <<composed, outcome, hostStdin, rightSpawn>>

(***************************************************************************)
(* SpecArgs: _convert_kwargs on one option mapping                         *)
(***************************************************************************)
NoOut == [done |-> FALSE, args |-> <<>>, kwargs |-> <<>>]

ArgIdle ==
    /\ akw = <<>>
    /\ aout = NoOut

\* inputs: keys of one, two and three characters, values of every type the
\* translation tells apart
OptionKeys == {Key_v, Key_ab, Key_n_x}

OptionValues ==
    {TrueV, FalseV, NoneV, StrV(Tok_x), StrV(<<>>),
     ListV(<<>>), ListV(<<StrV(Tok_x), StrV(Tok_add)>>), ListV(<<TrueV, StrV(Tok_x)>>)}

OptionEntries ==
    {[k |-> k, v |-> v] : k \in OptionKeys, v \in OptionValues}
        \cup {[k |-> Key_env, v |-> EnvV(EnvA)], [k |-> Key_stdin, v |-> PIPE]}

\* the mappings of at most n entries
RECURSIVE OptionDicts(_)
OptionDicts(n) ==
    IF n = 0 THEN {<<>>}
    ELSE OptionDicts(n - 1)
            \cup {Append(d, e) : d \in {x \in OptionDicts(n - 1) : Len(x) = n - 1},
                                 e \in OptionEntries}

DistinctKeys(d) == \A i, j \in 1..Len(d) : d[i].k = d[j].k => i = j

\* _convert_kwargs(kwargs)
ConvertKwargs ==
    /\ ~aout.done
    /\ aout' = [done |-> TRUE,
                args |-> convert_kwargs_args(akw),
                kwargs |-> convert_kwargs_kwargs(akw)]
    /\ UNCHANGED akw

(***************************************************************************)
(* SpecText: aush's Result.__str__ and Result.__iter__                     *)
(***************************************************************************)
NoText == [state |-> "none", value |-> <<>>]

TextIdle ==
    /\ tout = <<>>
    /\ ttext = NoText
    /\ tlines = <<>>
    /\ truns = 0

\* inputs: the bytes of h, space, line feed, carriage return, and a byte that
\* is not UTF-8
OutputBytes == {104, 32, 10, 13, 255}

RECURSIVE Outputs(_)
Outputs(n) ==
    IF n = 0 THEN {<<>>}
    ELSE Outputs(n - 1)
            \cup {Append(o, b) : o \in {x \in Outputs(n - 1) : Len(x) = n - 1}, b \in OutputBytes}

\* bytes.decode(): UTF-8, strict; these are the one-byte characters
DecodeByte(b) ==
    CASE b = 104 -> "h"
      [] b = 32 -> " "
      [] b = 10 -> "\n"
      [] b = 13 -> "\r"

\* decode() raises UnicodeDecodeError on a byte that starts no character
Decodable(bs) == \A i \in 1..Len(bs) : bs[i] < 128

Decode(bs) == [i \in 1..Len(bs) |-> DecodeByte(bs[i])]

\* str.isspace() of one character
IsSpace(c) == c \in {" ", "\n", "\r"}

RECURSIVE LStrip(_)
LStrip(s) == IF s # <<>> /\ IsSpace(Head(s)) THEN LStrip(Tail(s)) ELSE s

RECURSIVE RStrip(_)
RStrip(s) == IF s # <<>> /\ IsSpace(s[Len(s)]) THEN RStrip(SubSeq(s, 1, Len(s) - 1)) ELSE s

\* the string without one line terminator at its end
StripTerminator(s) ==
    IF Len(s) >= 2 /\ s[Len(s) - 1] = "\r" /\ s[Len(s)] = "\n" THEN SubSeq(s, 1, Len(s) - 2)
    ELSE IF s # <<>> /\ s[Len(s)] \in {"\n", "\r"} THEN SubSeq(s, 1, Len(s) - 1)
    ELSE s

\* the string without the whitespace at its end
StripTrailing(s) == RStrip(s)

\* str.strip()
Strip(s) == LStrip(RStrip(s))

\* str.splitlines(): a line ends at \n, \r or \r\n; the terminators are not
\* kept, and a terminator at the very end opens no further line
RECURSIVE SplitFrom(_, _)
SplitFrom(s, cur) ==
    IF s = <<>> THEN (IF cur = <<>> THEN <<>> ELSE <<cur>>)
    ELSE IF Len(s) >= 2 /\ s[1] = "\r" /\ s[2] = "\n" THEN <<cur>> \o SplitFrom(Tail(Tail(s)), <<>>)
    ELSE IF s[1] \in {"\n", "\r"} THEN <<cur>> \o SplitFrom(Tail(s), <<>>)
    ELSE SplitFrom(Tail(s), Append(cur, s[1]))

SplitLines(s) == SplitFrom(s, <<>>)

\* str(result): self.stdout.decode().strip()
ResultStr ==
    /\ ttext.state = "none"
    /\ ttext' = IF Decodable(tout)
                THEN [state |-> "value", value |-> Strip(Decode(tout))]
                ELSE [state |-> "raised", value |-> <<>>]
    /\ UNCHANGED <<tout, tlines, truns>>

\* list(result): yield from str(self).splitlines()
ResultIter ==
    /\ Len(tlines) < MaxIters
    /\ tlines' = Append(tlines,
                        IF Decodable(tout)
                        THEN [state |-> "value", value |-> SplitLines(Strip(Decode(tout)))]
                        ELSE [state |-> "raised", value |-> <<>>])
    /\ UNCHANGED <<tout, ttext, truns>>

(***************************************************************************)
(* SpecFile: Result._write and the operators >, >>, *, **                  *)
(***************************************************************************)
Paths == {"p", "q"}

NoFile == [exists |-> FALSE, content |-> <<>>]

FileIdle ==
    /\ fres = <<>>
    /\ files = [p \in Paths |-> NoFile]
    /\ fops = <<>>
    /\ fret = 0

\* inputs: what the two processes write to their output and error streams
FirstOutputs == {[out |-> <<1>>, err |-> <<>>], [out |-> <<1, 2>>, err |-> <<5>>]}

SecondOutputs == {[out |-> <<3>>, err |-> <<6>>], [out |-> <<>>, err |-> <<6, 7>>]}

\* a Result as Command.__call__ returns it: aush's constructor has read both
\* streams to their end; autoshell's Result holds nothing before wait()
ReturnedResult(o) == [out |-> o.out, err |-> o.err, held |-> lib = "aush"]

RedirectOps == {">", ">>", "*", "**"}

\* __gt__, __rshift__: stdout; __mul__, __pow__: stderr
OpStream(op) == IF op \in {">", ">>"} THEN "stdout" ELSE "stderr"

\* __gt__, __mul__: 'wb' ('w' in autoshell); __rshift__, __pow__: 'ab' ('a')
OpMode(op) == IF op \in {">", "*"} THEN "w" ELSE "a"

\* getattr(self, stream): the property (aush) or __getattr__ (autoshell) calls
\* wait(), after which the Result holds everything its process wrote
StreamValue(r, stream) == IF stream = "stdout" THEN r.out ELSE r.err

\* a write that truncates the file, whatever the mode
FileWriteTruncating(file, mode, data) == [exists |-> TRUE, content |-> data]

\* with open(path, mode) as f: f.write(data)
FileWrite(file, mode, data) ==
    [exists |-> TRUE,
     content |-> IF mode = "a" /\ file.exists THEN file.content \o data ELSE data]

\* result <op> path: self._write(path, stream, mode), which returns self
Redirect(r, op, path) ==
    /\ Len(fops) < MaxRedirects
    /\ fres' = [fres EXCEPT ![r].held = TRUE]
    /\ files' = [files EXCEPT ![path] =
                    FileWrite(@, OpMode(op), StreamValue(fres[r], OpStream(op)))]
    /\ fops' = Append(fops, [r |-> r, op |-> op, path |-> path])
    /\ fret' = r

(***************************************************************************)
(* Specifications                                                          *)
(***************************************************************************)
AuxIdle == ArgIdle /\ TextIdle /\ FileIdle

InitCmd ==
    /\ lib \in {"aush", "autoshell"}
    /\ CmdIdle
    /\ RunIdle
    /\ PipeIdle
    /\ AuxIdle

\* what a step of one machine leaves alone
CmdFrame == UNCHANGED <<lib, runVars, pipeVars, auxVars>>

RunFrame == UNCHANGED <<lib, cmdVars, pipeVars, auxVars>>

PipeFrame == UNCHANGED <<lib, cmdVars, runVars, auxVars>>

ArgFrame == UNCHANGED <<lib, cmdVars, runVars, pipeVars, textVars, fileVars>>

TextFrame == UNCHANGED <<lib, cmdVars, runVars, pipeVars, argVars, fileVars>>

FileFrame == UNCHANGED <<lib, cmdVars, runVars, pipeVars, argVars, textVars>>

NextCmd ==
    \/ \E kw \in KwargChoices : New(kw) /\ CmdFrame
    \/ \E d \in 1..Len(cmds), key \in ExtChoices : GetItem(d, key) /\ CmdFrame
    \/ \E d \in 1..Len(cmds), name \in ExtChoices : GetAttr(d, name) /\ CmdFrame
    \/ \E d \in 1..Len(cmds), args \in ArgChoices, kwargs \in KwargChoices :
          Call(d, args, kwargs) /\ CmdFrame
    \/ \E d \in 1..Len(cmds), args \in ArgChoices, kwargs \in KwargChoices :
          AutoCall(d, args, kwargs) /\ CmdFrame

SpecCmd == InitCmd /\ [][NextCmd]_vars

InitRun ==
    /\ lib \in {"aush", "autoshell"}
    /\ CmdIdle
    /\ RunIdle
    /\ PipeIdle
    /\ AuxIdle

NextRun ==
    \/ \E p \in Progs(MaxWrites), code \in ExitCodes, chk \in BOOLEAN, e \in BOOLEAN :
          RunCall(p, code, chk, e) /\ RunFrame
    \/ ChildWrite /\ RunFrame
    \/ ChildClose /\ RunFrame
    \/ ChildExit /\ RunFrame
    \/ \E s \in Streams : PumpRead(s) /\ RunFrame
    \/ \E s \in Streams : PumpEOF(s) /\ RunFrame
    \/ Reap /\ RunFrame
    \/ GatherDone /\ RunFrame
    \/ InitCheck /\ RunFrame
    \/ \E name \in AushAccessors : Access(name) /\ RunFrame
    \/ AutoWaitBegin /\ RunFrame
    \/ CommunicateDone /\ RunFrame
    \/ \E name \in AutoAccessors : AutoAccess(name) /\ RunFrame

SpecRun == InitRun /\ [][NextRun]_vars

\* the event loop and the operating system schedule fairly
FairSpecRun ==
    /\ SpecRun
    /\ WF_vars(ChildStep /\ RunFrame)
    /\ WF_vars(PumpStep /\ RunFrame)
    /\ WF_vars((GatherDone \/ InitCheck \/ CommunicateDone) /\ RunFrame)

InitPipe ==
    /\ lib \in {"aush", "autoshell"}
    /\ CmdIdle
    /\ RunIdle
    /\ procs = <<>>
    /\ results = <<>>
    /\ composed = NoComposed
    /\ outcome = NoOutcome
    /\ hostStdin \in HostStdinChoices
    /\ ppc = "start"
    /\ reading = 0
    /\ rightSpawn = NoSpawn
    /\ AuxIdle

NextPipe ==
    \/ \E p \in 1..Len(procs) : ProcRead(p) /\ PipeFrame
    \/ \E p \in 1..Len(procs) : ProcReadEnd(p) /\ PipeFrame
    \/ \E p \in 1..Len(procs) : ProcWrite(p) /\ PipeFrame
    \/ \E p \in 1..Len(procs) : ProcExit(p) /\ PipeFrame
    \/ HostRead /\ PipeFrame
    \/ HostEOF /\ PipeFrame
    \/ RunLeft /\ PipeFrame
    \/ LeftInitDone /\ PipeFrame
    \/ WaitLeft /\ PipeFrame
    \/ LeftCommunicateDone /\ PipeFrame
    \/ ComposeCmds /\ PipeFrame
    \/ ComposeResult /\ PipeFrame
    \/ PipelineStartLeft /\ PipeFrame
    \/ PipelineStartRight /\ PipeFrame
    \/ PipelineRightDone /\ PipeFrame
    \/ PipelineLeftResult /\ PipeFrame
    \/ AutoInvoke /\ PipeFrame
    \/ AutoWaitRight /\ PipeFrame
    \/ RightCommunicateDone /\ PipeFrame

SpecPipe == InitPipe /\ [][NextPipe]_vars

InitArgs ==
    /\ lib \in {"aush", "autoshell"}
    /\ CmdIdle
    /\ RunIdle
    /\ PipeIdle
    /\ akw \in {d \in OptionDicts(MaxOptions) : DistinctKeys(d)}
    /\ aout = NoOut
    /\ TextIdle
    /\ FileIdle

NextArgs ==
    \/ ConvertKwargs /\ ArgFrame

SpecArgs == InitArgs /\ [][NextArgs]_vars

\* a Result of aush whose process, spawned once, has ended with output tout
InitText ==
    /\ lib = "aush"
    /\ CmdIdle
    /\ RunIdle
    /\ PipeIdle
    /\ ArgIdle
    /\ tout \in Outputs(MaxText)
    /\ ttext = NoText
    /\ tlines = <<>>
    /\ truns = 1
    /\ FileIdle

NextText ==
    \/ ResultStr /\ TextFrame
    \/ ResultIter /\ TextFrame

SpecText == InitText /\ [][NextText]_vars

\* two Results, returned by two invocations
InitFile ==
    /\ lib \in {"aush", "autoshell"}
    /\ CmdIdle
    /\ RunIdle
    /\ PipeIdle
    /\ ArgIdle
    /\ TextIdle
    /\ \E a \in FirstOutputs, b \in SecondOutputs :
          fres = <<ReturnedResult(a), ReturnedResult(b)>>
    /\ files = [p \in Paths |-> NoFile]
    /\ fops = <<>>
    /\ fret = 0

NextFile ==
    \/ \E r \in 1..Len(fres), op \in RedirectOps, path \in Paths :
          Redirect(r, op, path) /\ FileFrame

SpecFile == InitFile /\ [][NextFile]_vars

(***************************************************************************)
(* Claims                                                                  *)
(***************************************************************************)

\* C1: a check-enabled command whose process exits non-zero does not raise
\* when it is invoked; only a later access of code, stdout or stderr raises.
C1_FailureRaisedOnlyByLaterAccess ==
    /\ raisedIn # "invoke"
    /\ (lib = "aush" /\ rcheck /\ exitcode # 0 /\ waitReturned) => raisedIn = "access"

\* a pump that can take a step: read a chunk, or read end-of-stream
PumpCanStep(s) ==
    PumpActive(s) /\ ~eof[s] /\ (pipe[s] # <<>> \/ child \in {"closed", "exited"})

\* the child is blocked writing to a full pipe and no pump can take a step
PipeDeadlock ==
    /\ Pumping
    /\ child = "running"
    /\ prog # <<>>
    /\ Len(pipe[Head(prog).s]) >= PipeCap
    /\ \A s \in Streams : ~PumpCanStep(s)

PumpsDone == eof["out"] /\ eof["err"] /\ pc \in {"returned", "raised"} /\ (rcheck => finished)

\* C4: with both pumps running concurrently no reachable state has the child
\* blocked on a full pipe while no pump can read, and under fair scheduling
\* running pumps lead to both streams ended and the Result completed.
C4_PumpsNeverDeadlockAndComplete ==
    /\ []~PipeDeadlock
    /\ (lib = "aush" /\ pc = "pumping") ~> PumpsDone

\* the child wrote more to its error stream than the pipe holds, and the Result completed
C4_Witness ==
    lib = "aush" /\ pc = "returned" /\ Len(buf["err"]) > PipeCap /\ eof["out"] /\ eof["err"]

\* C5: once a wait() has returned, both pumps have read end-of-stream, the
\* process has exited, what the Result shows is the whole buffer, and the
\* buffers never change again.
C5_NoPartialBufferAfterWait ==
    /\ [](waitReturned =>
            /\ eof["out"] /\ eof["err"]
            /\ child = "exited"
            /\ pipe["out"] = <<>> /\ pipe["err"] = <<>>
            /\ attrs.set => (attrs.stdout = buf["out"] /\ attrs.stderr = buf["err"]))
    /\ [][waitReturned => buf' = buf]_vars

\* a wait() has returned on a Result whose child wrote to both streams
C5_Witness == waitReturned /\ pc = "returned" /\ buf["out"] # <<>> /\ buf["err"] # <<>>

\* C6: once a wait() has returned, no later step performs a process or
\* stream operation or changes the exit code or the buffers, in aush and in
\* autoshell.
C6_WaitIdempotent ==
    [][waitReturned =>
         (ops' = ops /\ buf' = buf /\ returncode' = returncode /\ eof' = eof
          /\ attrs' = attrs)]_vars

\* C2: invoking A | B, composed from two unexecuted descriptors, yields a
\* Result, and the output it captures is B's output on A's complete output.
C2_PipelineOutput ==
    (ppc = "done" /\ composed.left = "Command") =>
        /\ outcome.kind = "Result"
        /\ results[outcome.res].buf = Filter(OutA)

\* C3: when the pipeline of an unexecuted left descriptor is invoked, the
\* right process is spawned with the left's output still an open pipe: the
\* left was started with check-on-error off and has been neither drained
\* into a host buffer nor waited for.
C3_RightSpawnedWhileLeftStreams ==
    (rightSpawn.spawned /\ composed.left = "Command") =>
        /\ lib = "aush" => ~rightSpawn.leftCheck
        /\ rightSpawn.leftOpen
        /\ ~rightSpawn.leftDrained
        /\ rightSpawn.leftBuf = <<>>
        /\ ~rightSpawn.leftFinished

\* C7: piping an already completed Result into B starts B with its input fed
\* from the Result's buffered output, and yields a Result for B.
C7_CompletedLeftIsReplayed ==
    (ppc = "done" /\ composed.left = "Result" /\ composed.leftCompleted) =>
        /\ outcome.kind = "Result"
        /\ procs[results[outcome.res].proc].stdin = BytesV(results[composed.leftRes].buf)

\* C8: no step changes a descriptor that exists: extension and invocation
\* leave argv tokens, options and directives of every existing descriptor as
\* they were, and an extension yields a further descriptor.
C8_DescriptorsNeverMutated ==
    [][/\ Len(cmds') >= Len(cmds)
       /\ \A d \in 1..Len(cmds) : cmds'[d] = cmds[d]
       /\ Len(ghostExt') > Len(ghostExt) => Len(cmds') = Len(cmds) + 1]_vars

\* a descriptor obtained by extension was invoked
C8_Witness == last.called /\ last.src > 1 /\ Len(ghostExt[last.src]) > 1

\* the options ArgumentTranslator is given: baked ones overridden by call-time ones
MergedOptions(baked, given) == DictUnion(baked, given)

\* C9: the argv spawned is program name and extension tokens T, then the
\* positional args P, then the tokens of the baked options merged with the
\* call-time options, each option's tokens once.
C9_ResolvedArgv ==
    (last.called /\ lib = "aush") =>
        last.argv = ghostExt[last.src] \o last.args
                      \o convert_kwargs_args(MergedOptions(cmds[last.src].kwargs, last.kwargs))

\* the overlay an options mapping carries under _env
Overlay(kwargs) == IF HasKey(kwargs, Key_env) THEN Get(kwargs, Key_env).env ELSE {}

\* C10: the child's environment is the inherited one overlaid with the
\* baked-in overlay overlaid with the call-time overlay.
C10_EnvironmentMerged ==
    (last.called /\ lib = "aush") =>
        last.env = EnvUnion(EnvUnion(OsEnviron, Overlay(cmds[last.src].kwargs)),
                            Overlay(last.kwargs))

\* the option key with underscores replaced by dashes
NormalizedKey(k) == [i \in 1..Len(k) |-> IF k[i] = "_" THEN "-" ELSE k[i]]

\* the non-reserved entries of a mapping whose value makes the translation emit
Emitting(d) ==
    SelectSeq(d, LAMBDA e : e.k[1] # "_" /\ ~(e.v.kind = "list" /\ e.v.elems = <<>>))

\* every emitting entry's flag is among the tokens, and the first token is the
\* first emitting entry's flag, for the flag that dashes(k) dashes make
FlagsAre(dashes(_)) ==
    aout.done =>
        /\ \A i \in 1..Len(Emitting(akw)) :
              \E j \in 1..Len(aout.args) :
                  aout.args[j] = dashes(Emitting(akw)[i].k) \o NormalizedKey(Emitting(akw)[i].k)
        /\ Emitting(akw) # <<>> =>
              aout.args[1] = dashes(Emitting(akw)[1].k) \o NormalizedKey(Emitting(akw)[1].k)

OneDashUpToTwo(k) == IF Len(k) <= 2 THEN <<"-">> ELSE <<"-", "-">>

OneDashForOne(k) == IF Len(k) = 1 THEN <<"-">> ELSE <<"-", "-">>

\* C11, as stated: the flag of a non-reserved key is the key with underscores
\* replaced by dashes, prefixed by one dash when the key has at most two
\* characters and by two dashes otherwise.
C11_OneDashUpToTwoChars == FlagsAre(OneDashUpToTwo)

\* C11, amended: the flag of a non-reserved key is the key with underscores
\* replaced by dashes, prefixed by one dash when the key has exactly one
\* character and by two dashes when it has two or more.
C11_OneDashForOneChar == FlagsAre(OneDashForOne)

C11_Witness ==
    /\ aout.done
    /\ Len(akw) = 2
    /\ akw[1].k = Key_ab
    /\ akw[2].k = Key_v
    /\ akw[1].v = TrueV
    /\ akw[2].v = TrueV
    /\ aout.args = <<<<"-", "-", "a", "b">>, <<"-", "v">>>>

\* the tokens of one element (or of a value that is not iterated) under flag
ElementTokens(flag, e) == IF e.kind = "True" THEN <<flag>> ELSE <<flag, PyStr(e)>>

\* the flag followed by the stringified element, whatever the element
ElementTokensPlain(flag, e) == <<flag, PyStr(e)>>

RECURSIVE EachElement(_, _, _)
EachElement(tokens(_, _), flag, es) ==
    IF es = <<>> THEN <<>>
    ELSE tokens(flag, Head(es)) \o EachElement(tokens, flag, Tail(es))

\* the tokens of one non-reserved option
OptionTokens(tokens(_, _), e) ==
    CASE e.v.kind = "True" -> <<FlagToken(e.k)>>
      [] e.v.kind = "list" -> EachElement(tokens, FlagToken(e.k), e.v.elems)
      [] OTHER -> <<FlagToken(e.k), PyStr(e.v)>>

RECURSIVE AllOptionTokens(_, _)
AllOptionTokens(tokens(_, _), d) ==
    IF d = <<>> THEN <<>>
    ELSE (IF Head(d).k[1] = "_" THEN <<>> ELSE OptionTokens(tokens, Head(d)))
            \o AllOptionTokens(tokens, Tail(d))

\* C12, as stated: the translation emits, for every non-reserved option in
\* mapping order, the flag alone when the value is True; for a non-string
\* iterable the flag followed by the stringified element, once per element;
\* otherwise the flag followed by the stringified value.
C12_FlagThenEachElementStringified ==
    aout.done => aout.args = AllOptionTokens(ElementTokensPlain, akw)

\* C12, amended: as stated, except that an element of an iterable that is
\* True contributes the flag alone, as a True value does.
C12_FlagAloneForTrueElements ==
    aout.done => aout.args = AllOptionTokens(ElementTokens, akw)

C12_Witness ==
    /\ aout.done
    /\ Len(akw) = 2
    /\ akw[1] = [k |-> Key_n_x, v |-> ListV(<<TrueV, StrV(Tok_x)>>)]
    /\ akw[2] = [k |-> Key_v, v |-> FalseV]
    /\ aout.args = <<FlagToken(Key_n_x), FlagToken(Key_n_x), Tok_x,
                     FlagToken(Key_v), <<"F", "a", "l", "s", "e">>>>

\* the directive keys that occur
DirectiveKeys == {Key_env, Key_check, Key_stdout, Key_stderr, Key_stdin}

IsSuffix(n, tok) == Len(tok) >= Len(n) /\ SubSeq(tok, Len(tok) - Len(n) + 1, Len(tok)) = n

\* tok is a directive key, with or without its marker, or a flag made of one
DerivedFromDirectiveKey(tok) == \E k \in DirectiveKeys : IsSuffix(Tail(k), tok)

\* the directive entries of a mapping
Directives(d) == SelectSeq(d, LAMBDA e : e.k[1] = "_")

\* no token of argv comes from a directive key or is a directive's value
NoDirectiveToken(argv, d) ==
    \A i \in 1..Len(argv) :
        /\ ~DerivedFromDirectiveKey(argv[i])
        /\ \A j \in 1..Len(Directives(d)) : argv[i] # PyStr(Directives(d)[j].v)

\* entry e of the options is in the execution configuration skw, marker stripped
Routed(e, skw) ==
    /\ HasKey(skw, Tail(e.k))
    /\ IF e.v.kind = "env"
       THEN Get(skw, Tail(e.k)).kind = "env" /\ e.v.env \subseteq Get(skw, Tail(e.k)).env
       ELSE Get(skw, Tail(e.k)) = e.v

\* C13: a directive (underscore-prefixed) key and its value are never argv
\* tokens, of any descriptor made by construction and extension or of any
\* invocation; the value goes, marker stripped, to the execution configuration
\* (check-on-error, a named parameter in aush, to the descriptor's _check).
C13_DirectivesNeverInArgv ==
    /\ \A i \in 1..Len(cmds) :
          /\ NoDirectiveToken(cmds[i].command, default_kwargs \o cmds[i].kwargs)
          /\ lib = "aush" =>
                \A j \in 1..Len(Directives(cmds[i].kwargs)) :
                    Routed(Directives(cmds[i].kwargs)[j], cmds[i].subprocess_kwargs)
    /\ last.called =>
          /\ NoDirectiveToken(last.argv, default_kwargs \o last.kwargs)
          /\ \A j \in 1..Len(Directives(last.kwargs)) :
                IF lib = "aush" /\ Directives(last.kwargs)[j].k = Key_check
                THEN last.check = Truthy(Directives(last.kwargs)[j].v)
                ELSE Routed(Directives(last.kwargs)[j], last.skw)

C13_Witness ==
    /\ lib = "aush"
    /\ last.called
    /\ last.kwargs = <<[k |-> Key_v, v |-> StrV(Tok_x)], [k |-> Key_env, v |-> EnvV({})]>>
    /\ HasKey(cmds[last.src].kwargs, Key_env)
    /\ Get(last.skw, Key_env_stripped) = EnvV({})
    /\ Len(last.argv) >= 3

\* C14: the captured output of a Result is exactly the bytes the child wrote
\* to its output stream, in order: at every moment the buffer followed by the
\* bytes still in the pipe is what the child has written so far, and once the
\* Result holds its output (aush: when the constructor's reads are over;
\* autoshell: when wait has stored it) the child has written everything and
\* the output is all of it; the same for the error stream, with echo or without.
C14_CapturedOutputIsWhatChildWrote ==
    /\ \A s \in Streams : buf[s] \o pipe[s] = wrote[s]
    /\ (lib = "aush" /\ pc \in {"init_check", "returned", "raised"}) =>
          /\ prog = <<>>
          /\ \A s \in Streams : buf[s] = wrote[s]
    /\ (lib = "autoshell" /\ attrs.set) =>
          /\ prog = <<>>
          /\ attrs.stdout = wrote["out"]
          /\ attrs.stderr = wrote["err"]

C14_Witness ==
    /\ lib = "aush"
    /\ echo
    /\ pc = "returned"
    /\ wrote["out"] = <<1, 2, 3>>
    /\ buf["out"] = <<1, 2, 3>>
    /\ term = <<[kind |-> "chunk", data |-> <<1, 2>>], [kind |-> "chunk", data |-> <<3>>]>>

\* s without the whitespace before its first and after its last character
\* that is not whitespace; nothing when s is all whitespace
Trimmed(s) ==
    IF \A i \in 1..Len(s) : s[i] \in {" ", "\n", "\r"} THEN <<>>
    ELSE LET first == CHOOSE i \in 1..Len(s) :
                          /\ s[i] \notin {" ", "\n", "\r"}
                          /\ \A j \in 1..(i - 1) : s[j] \in {" ", "\n", "\r"}
             final == CHOOSE i \in 1..Len(s) :
                          /\ s[i] \notin {" ", "\n", "\r"}
                          /\ \A j \in (i + 1)..Len(s) : s[j] \in {" ", "\n", "\r"}
         IN  SubSeq(s, first, final)

\* C15, as stated: the text form of a Result is its decoded output with the
\* trailing line terminator stripped and every other character unchanged.
C15_OnlyTrailingTerminatorStripped ==
    ttext.state = "value" => ttext.value = StripTerminator(Decode(tout))

\* C15, amended: the text form of a Result is its decoded output with all
\* leading and all trailing whitespace stripped, and every character between
\* the first and the last that is not whitespace unchanged.
C15_LeadingAndTrailingWhitespaceStripped ==
    /\ ttext.state = "value" => ttext.value = Trimmed(Decode(tout))
    /\ (Decodable(tout) /\ ttext.state # "none") => ttext.state = "value"

C15_Witness ==
    /\ tout = <<32, 104, 10>>
    /\ ttext = [state |-> "value", value |-> <<"h">>]

\* C16, as stated: iterating a Result yields the lines of its decoded output,
\* split at line terminators; iterating again yields the same sequence, and
\* no process is spawned for it.
C16_LinesOfDecodedOutput ==
    /\ \A i \in 1..Len(tlines) :
          tlines[i].state = "value" => tlines[i].value = SplitLines(Decode(tout))
    /\ truns = 1

\* C16, amended: iterating a Result yields the lines of its text form (the
\* decoded output without its leading and trailing whitespace), split at line
\* terminators; iterating again yields the same sequence, and no process is
\* spawned for it.
C16_LinesOfTextForm ==
    /\ \A i \in 1..Len(tlines) :
          /\ tlines[i].state = "value" => tlines[i].value = SplitLines(Trimmed(Decode(tout)))
          /\ tlines[i] = tlines[1]
          /\ Decodable(tout) => tlines[i].state = "value"
    /\ truns = 1

C16_Witness ==
    /\ tout = <<104, 10, 104>>
    /\ Len(tlines) = 2
    /\ tlines[1] = [state |-> "value", value |-> <<<<"h">>, <<"h">>>>]
    /\ tlines[2] = tlines[1]

\* the stream a redirection writes, in full
Written(o) == IF o.op \in {">", ">>"} THEN fres[o.r].out ELSE fres[o.r].err

\* C17: an overwrite (>) of one Result's output to a path followed by an
\* append (>>) of a second Result's output to the same path leaves the first
\* output followed by the second in the file; every redirection operator
\* writes the whole stream of its Result, which holds it from then on, and
\* returns that Result.
C17_OverwriteThenAppend ==
    /\ (Len(fops) = 2 /\ fops[1].op = ">" /\ fops[2].op = ">>" /\ fops[1].path = fops[2].path) =>
          files[fops[1].path].content = fres[fops[1].r].out \o fres[fops[2].r].out
    /\ fops # <<>> =>
          LET o == fops[Len(fops)]
          IN  /\ fret = o.r
              /\ fres[o.r].held
              /\ files[o.path].exists
              /\ IF o.op \in {">", "*"}
                 THEN files[o.path].content = Written(o)
                 ELSE IsSuffix(Written(o), files[o.path].content)

C17_Witness ==
    /\ fops = <<[r |-> 1, op |-> ">", path |-> "p"], [r |-> 2, op |-> ">>", path |-> "p"]>>
    /\ fres[1].out = <<1, 2>>
    /\ fres[2].out = <<3>>
    /\ files["p"] = [exists |-> TRUE, content |-> <<1, 2, 3>>]
    /\ fret = 2

\* no process of the pipeline's right command exists
NoRightProcess == \A p \in 1..Len(procs) : procs[p].prog # Tok_B

\* C18, as stated: composing a pipeline from an unexecuted descriptor spawns
\* no process; the left and the right process are spawned only when the
\* composed pipeline is invoked.
C18_ComposingSpawnsNothing ==
    (composed.left = "Command" /\ ppc = "composed") => procs = <<>>

\* C18, amended: composing a pipeline from an unexecuted descriptor spawns no
\* process in aush; in autoshell it spawns the left process, and only that
\* one.  In both, the right process is spawned only when the composed object
\* is invoked, and in aush so is the left.
C18_AushComposesLazily ==
    (composed.left = "Command" /\ ppc = "composed") =>
        /\ lib = "aush" => procs = <<>>
        /\ lib = "autoshell" => Len(procs) = 1 /\ procs[1].prog = Tok_A
        /\ NoRightProcess

C18_Witness ==
    /\ lib = "aush"
    /\ ppc = "composed"
    /\ composed.kind = "Pipeline"
    /\ composed.left = "Command"
    /\ procs = <<>>
    /\ results = <<>>

\* C19: invocation preserves the descriptor's check-on-error directive: the
\* Command that an invocation without a call-time _check hands to Result has
\* the _check of the descriptor invoked, so that a descriptor made with
\* _check=False gives a Result that does not raise on a non-zero exit code.
C19_CheckDirectivePreserved ==
    (lib = "aush" /\ last.called /\ ~HasKey(last.kwargs, Key_check)) =>
        last.check = cmds[last.src].check

====
